---------------------------- MODULE Spec2Model ----------------------------
(***************************************************************************)
(* Model of WeddingPhotoGalleryComponent                                   *)
(* (src/src/components/wedding-photo-gallery.tsx): the React state of the  *)
(* component, the asynchronous page fetches (fetchPhotos), the uploads     *)
(* (handleFileUpload / uploadMedia), the scroll sentinel's                 *)
(* IntersectionObserver (infiniteScrollRef) and the auth/user effect.      *)
(*                                                                         *)
(* React state is modelled as two records: st is the state of the last     *)
(* committed render (the values every closure of that render captured) and *)
(* pend is st with the queued state updates applied in order.  Render      *)
(* commits pend, re-attaches the callback ref and runs the effects whose   *)
(* dependencies changed.                                                   *)
(***************************************************************************)
EXTENDS Integers, Sequences, FiniteSets, TLC

(***************************************************************************)
(* Bounds of the model.                                                    *)
(***************************************************************************)
MaxOps    == 4    \* auth deliveries, page loads and handler invocations per behaviour
MaxStored == 3    \* objects in the bucket when the page is opened

(***************************************************************************)
(* Object names.  A name is the string `${Date.now()}_${file.name}`; it is *)
(* kept as the pair (ts, file) and compared as the string it stands for.   *)
(***************************************************************************)
\* character codes of the file names (ASCII)
FileChars(f) ==
  CASE f = "a.jpg" -> <<97, 46, 106, 112, 103>>
    [] f = "b.jpg" -> <<98, 46, 106, 112, 103>>
    [] f = "c.jpg" -> <<99, 46, 106, 112, 103>>
    [] f = "b.mp4" -> <<98, 46, 109, 112, 52>>
    [] f = "d.pdf" -> <<100, 46, 112, 100, 102>>

RECURSIVE Digits(_)
\* decimal digits of a non-negative integer, as character codes
Digits(n) == IF n < 10 THEN <<48 + n>> ELSE Digits(n \div 10) \o <<48 + (n % 10)>>

\* `${ts}_${file}` as a sequence of character codes
NameStr(n) == Digits(n.ts) \o <<95>> \o FileChars(n.file)

MkName(ts, f) == [ts |-> ts, file |-> f]

RECURSIVE StrLess(_, _)
\* JavaScript / storage-service string order: code unit by code unit
StrLess(a, b) ==
  IF b = <<>> THEN FALSE
  ELSE IF a = <<>> THEN TRUE
  ELSE IF a[1] # b[1] THEN a[1] < b[1]
  ELSE StrLess(Tail(a), Tail(b))

NameLess(m, n) == StrLess(NameStr(m), NameStr(n))

RECURSIVE SortAsc(_)
\* the names of a set in ascending string order
SortAsc(S) ==
  IF S = {} THEN <<>>
  ELSE LET m == CHOOSE x \in S : \A y \in S \ {x} : NameLess(x, y)
       IN  <<m>> \o SortAsc(S \ {m})

Take(s, k) == IF Len(s) <= k THEN s ELSE SubSeq(s, 1, k)

(***************************************************************************)
(* The storage service.  list(listRef, {maxResults, pageToken}) returns    *)
(* the objects under photos/ in ascending order of name, at most           *)
(* maxResults of them, starting after the object the page token stands     *)
(* for, and a nextPageToken only when objects remain after the page.       *)
(* A page token is <<>> (undefined) or <<n>>, n the last name of a page.   *)
(***************************************************************************)
NoToken == <<>>

List(objects, pageSize, pageToken) ==
  LET rest   == IF pageToken = NoToken THEN objects
                ELSE {n \in objects : NameLess(pageToken[1], n)}
      sorted == SortAsc(rest)
      items  == Take(sorted, pageSize)
  IN  [items         |-> items,
       nextPageToken |-> IF Len(sorted) > pageSize
                         THEN <<items[Len(items)]>> ELSE NoToken]

\* getDownloadURL(storageRef): the retrieval URL of an object
DownloadURL(n) == <<"url", n>>

\* interface PhotoItem (storageRef is the reference of the same name)
PhotoItem(n, u) == [name |-> n, url |-> u]

(***************************************************************************)
(* Files the user can select.  type is the MIME type as <<major, minor>>,  *)
(* <<>> when the browser reports none; size is in bytes.                   *)
(***************************************************************************)
\* VITE_MAX_FILE_SIZE (line 16), in megabytes
maxUploadSize == 10

\* VITE_PHOTOS_PER_PAGE (line 18)
maxResults == 2

SizeLimit == maxUploadSize * 1024 * 1024

NoFile == [name |-> "", type |-> <<>>, size |-> 0]

Files ==
  { [name |-> "b.mp4", type |-> <<"video", "mp4">>, size |-> SizeLimit],
    [name |-> "c.jpg", type |-> <<"image", "jpeg">>, size |-> SizeLimit + 1],
    [name |-> "d.pdf", type |-> <<"application", "pdf">>, size |-> 1] }

\* file.type.startsWith(major + '/')
TypeStartsWith(type, major) == Len(type) = 2 /\ type[1] = major

(***************************************************************************)
(* State.                                                                  *)
(***************************************************************************)
VARIABLES
  store,       \* names of the objects under photos/ in the bucket
  now,         \* last value Date.now() returned
  visible,     \* the sentinel <div ref={infiniteScrollRef}> is in the viewport
  st,          \* component state of the committed render
  pend,        \* component state with the queued updates applied
  observer,    \* observer.current
  fetches,     \* the fetchPhotos invocations, in order of invocation
  uploads,     \* the handleFileUpload invocations, in order of invocation
  nAuth,       \* number of onAuthStateChanged deliveries
  errors,      \* the error toasts shown so far
  link,        \* isSignInWithEmailLink(auth, window.location.href)
  stored,      \* window.localStorage.getItem('emailForSignIn')
  dev,         \* development build: StrictMode runs the mount effects twice
  nLoads,      \* number of times the page was loaded again
  landing,     \* what the sign-in link effect found when the page was loaded
  requests,    \* the sendSignInLink invocations, in order of invocation
  exchanges    \* the completeSignIn invocations, in order of invocation

\* the variables of the sign-in flow
signInVars == <<link, stored, dev, nLoads, landing, requests, exchanges>>

vars == <<store, now, visible, st, pend, observer, fetches,
          uploads, nAuth, errors, signInVars>>

NoUser == "null"
Users  == {"u1", "u2"}

\* the messages of the error toasts
ErrFetching  == "Error fetching photos. Please try again."             \* line 126
ErrUploading == "Error uploading image. Please try again."             \* lines 143, 152
ErrFileType  == "Invalid file type. Please upload an image or video file."   \* line 166
ErrFileSize  == "File size exceeds the limit. Please upload a smaller file." \* line 171
ErrSigningIn == "Error signing in. Please try again."                  \* lines 56, 67
ErrSending   == "Error sending sign-in link. Please try again."        \* line 90

\* a missing or empty e-mail address: getItem returned null
NoEmail == ""
\* the addresses a guest may type; the sign-in link was mailed to LinkEmail
Emails    == {"a@x", "b@x"}
LinkEmail == "a@x"

\* the page was opened at a URL that is not a sign-in link
PlainLanding == [link |-> FALSE, email |-> NoEmail]

\* the k objects other guests stored before the page is opened:
\* 1_a.jpg, 2_b.jpg, 3_c.jpg, 4_a.jpg, ...
StoredFile(j) == CASE j % 3 = 1 -> "a.jpg" [] j % 3 = 2 -> "b.jpg" [] OTHER -> "c.jpg"

InitStore(k) == {MkName(j, StoredFile(j)) : j \in 1..k}

\* useState initial values, lines 27-43
InitState ==
  [user |-> NoUser, photos |-> <<>>, loading |-> FALSE, hasMore |-> TRUE,
   pageToken |-> NoToken, sendingSignInLink |-> FALSE, isModalOpen |-> FALSE]

NoObserver == [kind |-> "undefined"]
\* an IntersectionObserver that observes no element
IdleObserver == [kind |-> "idle"]

Init ==
  /\ store \in {InitStore(k) : k \in 0..MaxStored}
  /\ now = MaxStored
  /\ visible = TRUE
  /\ st = InitState
  /\ pend = InitState
  /\ observer = NoObserver
  /\ fetches = <<>>
  /\ uploads = <<>>
  /\ nAuth = 0
  /\ errors = {}
  /\ link = FALSE
  /\ stored = NoEmail
  /\ dev = FALSE
  /\ nLoads = 0
  /\ landing = PlainLanding
  /\ requests = <<>>
  /\ exchanges = <<>>

(***************************************************************************)
(* fetchPhotos, lines 98-132.  An invocation captures the pageToken of the *)
(* render whose closure is called; it is recorded in fetches with          *)
(*   phase  "list"   awaiting list(...)                       (line 104)   *)
(*          "urls"   awaiting Promise.all of getDownloadURL   (line 106)   *)
(*          "ok"     ran lines 118-124 and 131                             *)
(*          "failed" ran the catch block and line 131                      *)
(*   by     the caller: "effect" (line 264) or "observer" (line 229).      *)
(***************************************************************************)
\* the model follows a behaviour for MaxOps invocations
Ops == nAuth + Len(fetches) + Len(uploads) + Len(requests) + Len(exchanges) + nLoads

Budget == Ops < MaxOps

NewFetch(tok, by) ==
  [tok |-> tok, by |-> by, phase |-> "list", items |-> <<>>,
   next |-> NoToken, got |-> {}]

\* line 99 and the call of list, up to the first await
fetchPhotos(p, tok, by) ==
  /\ Budget
  /\ fetches' = Append(fetches, NewFetch(tok, by))
  /\ pend' = [p EXCEPT !.loading = TRUE]

\* lines 106-116: the items of a page, zipped back to the listing's order
PageItems(f) == [k \in 1..Len(f.items) |-> PhotoItem(f.items[k], DownloadURL(f.items[k]))]

\* line 120: setPhotos((prevPhotos) => pageToken ? [...prevPhotos, ...items] : items)
PublishPhotos(prevPhotos, tok, items) ==
  IF tok # NoToken THEN prevPhotos \o items ELSE items

\* variant: hasMore derived from the size of the page
HasMoreByCount(f) == ~(Len(f.items) < maxResults)

\* line 124: setHasMore(!!res.nextPageToken)
HasMoreAfter(f) == f.next # NoToken

\* lines 118-124 and 131, the updates queued when every URL is resolved
Publish(f) ==
  [pend EXCEPT !.photos    = PublishPhotos(pend.photos, f.tok, PageItems(f)),
               !.pageToken = f.next,
               !.hasMore   = HasMoreAfter(f),
               !.loading   = FALSE]

\* variant: setLoading(false) inside the try block only
FetchFailed_KeepsLoading == pend

\* variant: the catch block gives up on further pages
FetchFailed_EndsFeed ==
  [pend EXCEPT !.loading = FALSE, !.pageToken = NoToken, !.hasMore = FALSE]

\* lines 125-131: the catch block queues nothing, then setLoading(false)
FetchFailed == [pend EXCEPT !.loading = FALSE]

\* line 104 resolves: res = the listing of the store as it is now
ListResolves(i) ==
  /\ fetches[i].phase = "list"
  /\ LET res == List(store, maxResults, fetches[i].tok)
         f   == [fetches[i] EXCEPT !.items = res.items, !.next = res.nextPageToken]
     IN  IF res.items = <<>>
         THEN /\ fetches' = [fetches EXCEPT ![i] = [f EXCEPT !.phase = "ok"]]
              /\ pend' = Publish(f)
         ELSE /\ fetches' = [fetches EXCEPT ![i] = [f EXCEPT !.phase = "urls"]]
              /\ pend' = pend
  /\ UNCHANGED <<store, now, visible, st, observer, uploads,
                 nAuth, errors, signInVars>>

\* line 104 rejects
ListFails(i) ==
  /\ fetches[i].phase = "list"
  /\ fetches' = [fetches EXCEPT ![i].phase = "failed"]
  /\ pend' = FetchFailed
  /\ errors' = errors \cup {ErrFetching}
  /\ UNCHANGED <<store, now, visible, st, observer, uploads,
                 nAuth, signInVars>>

\* variant: the page is published when the first URL is resolved
AnyResolved(f) == f.got # {}

\* line 106: Promise.all resolves when every promise of the array has
AllResolved(f) == f.got = 1..Len(f.items)

\* getDownloadURL of the k-th listed object resolves (lines 108-111); the
\* last one to resolve resolves Promise.all and lines 118-124, 131 run
UrlResolves(i, k) ==
  /\ fetches[i].phase = "urls"
  /\ k \in (1..Len(fetches[i].items)) \ fetches[i].got
  /\ LET f == [fetches[i] EXCEPT !.got = @ \cup {k}]
     IN  IF AllResolved(f)
         THEN /\ fetches' = [fetches EXCEPT ![i] = [f EXCEPT !.phase = "ok"]]
              /\ pend' = Publish(f)
         ELSE /\ fetches' = [fetches EXCEPT ![i] = f]
              /\ pend' = pend
  /\ UNCHANGED <<store, now, visible, st, observer, uploads,
                 nAuth, errors, signInVars>>

\* getDownloadURL of the k-th listed object rejects (lines 112-114):
\* Promise.all rejects at once and the catch block runs
UrlFails(i, k) ==
  /\ fetches[i].phase = "urls"
  /\ k \in (1..Len(fetches[i].items)) \ fetches[i].got
  /\ fetches' = [fetches EXCEPT ![i].phase = "failed"]
  /\ pend' = FetchFailed
  /\ errors' = errors \cup {ErrFetching}
  /\ UNCHANGED <<store, now, visible, st, observer, uploads,
                 nAuth, signInVars>>

(***************************************************************************)
(* infiniteScrollRef, lines 218-240, called by React with the sentinel     *)
(* (node = TRUE) or with null (node = FALSE).  c is the state of the       *)
(* render that created the callback.  The observer it creates keeps that   *)
(* render's hasMore and fetchPhotos (its pageToken); last is the           *)
(* isIntersecting value of its latest notification ("none" before the      *)
(* first).  An observer that observes no element never notifies and is     *)
(* kept as IdleObserver.                                                   *)
(***************************************************************************)
infiniteScrollRef(obs, c, node) ==
  IF c.loading THEN obs
  ELSE IF node
       THEN [kind |-> "active", hasMore |-> c.hasMore, tok |-> c.pageToken,
             last |-> "none"]
       ELSE IdleObserver

\* the sentinel is rendered only in the signed-in branch (lines 276, 404)
Mounted(s) == s.user # NoUser

\* identity of fetchPhotos changes with its dependencies (line 132)
FetchPhotosChanged(old, new) ==
  old.user # new.user \/ old.pageToken # new.pageToken

\* identity of infiniteScrollRef changes with its dependencies (line 240)
RefChanged(old, new) ==
  \/ old.loading # new.loading
  \/ old.hasMore # new.hasMore
  \/ FetchPhotosChanged(old, new)

\* dependencies of the auth/user effect (line 274)
EffectChanged(old, new) == FetchPhotosChanged(old, new) \/ old.user # new.user

\* the effect of lines 258-274 calls fetchPhotos when a user is signed in
EffectFetches(new) == new.user # NoUser

(***************************************************************************)
(* A render of the component with the queued updates, and its commit: the  *)
(* old callback ref is called with null and the new one with the sentinel  *)
(* when the ref changed or the sentinel was (un)mounted, then the effect   *)
(* of lines 258-274 runs again if its dependencies changed.  An observer   *)
(* left observing a sentinel that was removed from the page (line 220      *)
(* returned on the call with null) never sees it intersect again and is    *)
(* kept as IdleObserver.                                                   *)
(***************************************************************************)
Render ==
  /\ pend # st
  /\ st' = pend
  /\ LET detached == IF Mounted(st) /\ (~Mounted(pend) \/ RefChanged(st, pend))
                     THEN infiniteScrollRef(observer, st, FALSE)
                     ELSE observer
         unmounted == IF ~Mounted(pend) /\ detached.kind = "active"
                      THEN IdleObserver ELSE detached
     IN  observer' = IF Mounted(pend) /\ (~Mounted(st) \/ RefChanged(st, pend))
                     THEN infiniteScrollRef(unmounted, pend, TRUE)
                     ELSE unmounted
  /\ IF EffectChanged(st, pend) /\ EffectFetches(pend)
     THEN fetchPhotos(pend, pend.pageToken, "effect")
     ELSE UNCHANGED <<pend, fetches>>
  /\ UNCHANGED <<store, now, visible, uploads, nAuth, errors, signInVars>>

\* the sentinel scrolls into or out of the viewport
Scroll ==
  /\ Mounted(st)
  /\ visible' = ~visible
  /\ UNCHANGED <<store, now, st, pend, observer, fetches,
                 uploads, nAuth, errors, signInVars>>

\* the IntersectionObserver callback, lines 227-235
ObserverFetches(isIntersecting, hasMore) == isIntersecting /\ hasMore

ObserverCallback ==
  /\ observer.kind = "active"
  /\ observer.last # (IF visible THEN "in" ELSE "out")
  /\ observer' = [observer EXCEPT !.last = IF visible THEN "in" ELSE "out"]
  /\ IF ObserverFetches(visible, observer.hasMore)
     THEN fetchPhotos(pend, observer.tok, "observer")
     ELSE UNCHANGED <<pend, fetches>>
  /\ UNCHANGED <<store, now, visible, st, uploads,
                 nAuth, errors, signInVars>>

\* auth.onAuthStateChanged callback, lines 259-261
AuthStateChanged(u) ==
  /\ Budget
  /\ u # pend.user
  /\ u = "u2" => nAuth > 0     \* users are named in order of appearance
  /\ nAuth' = nAuth + 1
  /\ pend' = [pend EXCEPT !.user = u]
  /\ UNCHANGED <<store, now, visible, st, observer, fetches,
                 uploads, errors, signInVars>>

(***************************************************************************)
(* Uploads: handleFileUpload (lines 158-178) and uploadMedia (134-156).    *)
(* A handleFileUpload invocation is recorded in uploads with the selected  *)
(* file, the object name of line 136 and                                   *)
(*   phase "rejected" returned at line 162, 167 or 172                     *)
(*         "write"    awaiting uploadBytes        (line 140)               *)
(*         "url"      awaiting getDownloadURL     (line 146)               *)
(*         "ok"       ran line 148                                         *)
(*         "failed"   ran the catch block of uploadMedia.                  *)
(***************************************************************************)
\* variant: only the size is checked
Accepted_SizeOnly(f) == f # NoFile /\ ~(f.size > SizeLimit)

\* lines 161-173: the file passes the checks
Accepted(f) ==
  /\ f # NoFile
  /\ TypeStartsWith(f.type, "image") \/ TypeStartsWith(f.type, "video")
  /\ ~(f.size > SizeLimit)

\* the toast of lines 166 and 171
RejectionToast(f) ==
  IF f = NoFile \/ Accepted(f) THEN {}
  ELSE IF ~(TypeStartsWith(f.type, "image") \/ TypeStartsWith(f.type, "video"))
       THEN {ErrFileType}
       ELSE {ErrFileSize}

\* f is the selected file; Date.now() at line 136 has advanced since the
\* previous call
handleFileUpload(f) ==
  /\ Mounted(st)
  /\ Budget
  /\ IF Accepted(f)
     THEN /\ now' = now + 1
          /\ uploads' = Append(uploads, [file |-> f, name |-> MkName(now + 1, f.name),
                                         phase |-> "write"])
     ELSE /\ now' = now
          /\ uploads' = Append(uploads, [file |-> f, name |-> MkName(0, f.name),
                                         phase |-> "rejected"])
  /\ errors' = errors \cup RejectionToast(f)
  /\ UNCHANGED <<store, visible, st, pend, observer, fetches, nAuth, signInVars>>

\* variant: the item is inserted as soon as the bytes are written
UploadWritten_Optimistic(j) ==
  /\ uploads[j].phase = "write"
  /\ store' = store \cup {uploads[j].name}
  /\ uploads' = [uploads EXCEPT ![j].phase = "url"]
  /\ pend' = [pend EXCEPT !.photos = <<PhotoItem(uploads[j].name, <<>>)>> \o @]
  /\ UNCHANGED <<now, visible, st, observer, fetches, nAuth, errors, signInVars>>

\* uploadBytes resolves: the object is in the bucket
UploadWritten(j) ==
  /\ uploads[j].phase = "write"
  /\ store' = store \cup {uploads[j].name}
  /\ uploads' = [uploads EXCEPT ![j].phase = "url"]
  /\ UNCHANGED <<now, visible, st, pend, observer, fetches,
                 nAuth, errors, signInVars>>

\* lines 151-155: the catch block of uploadMedia queues no state update
UploadFailed == pend

\* uploadBytes rejects
UploadWriteFails(j) ==
  /\ uploads[j].phase = "write"
  /\ uploads' = [uploads EXCEPT ![j].phase = "failed"]
  /\ pend' = UploadFailed
  /\ errors' = errors \cup {ErrUploading}
  /\ UNCHANGED <<store, now, visible, st, observer, fetches, nAuth, signInVars>>

\* line 148: setPhotos((prevPhotos) => [{url, name, storageRef}, ...prevPhotos])
Prepend(prevPhotos, name) == <<PhotoItem(name, DownloadURL(name))>> \o prevPhotos

\* getDownloadURL resolves (line 146), then line 148
UploadUrlResolves(j) ==
  /\ uploads[j].phase = "url"
  /\ uploads' = [uploads EXCEPT ![j].phase = "ok"]
  /\ pend' = [pend EXCEPT !.photos = Prepend(pend.photos, uploads[j].name)]
  /\ UNCHANGED <<store, now, visible, st, observer, fetches,
                 nAuth, errors, signInVars>>

\* getDownloadURL rejects (line 146)
UploadUrlFails(j) ==
  /\ uploads[j].phase = "url"
  /\ uploads' = [uploads EXCEPT ![j].phase = "failed"]
  /\ pend' = UploadFailed
  /\ errors' = errors \cup {ErrUploading}
  /\ UNCHANGED <<store, now, visible, st, observer, fetches, nAuth, signInVars>>

(***************************************************************************)
(* The sign-in link flow: the effect of lines 242-256, completeSignIn       *)
(* (51-71), sendSignInLink (73-96) and handleModalSubmit (180-190).        *)
(* An invocation of completeSignIn is recorded in exchanges with the       *)
(* e-mail it was given, its caller ("effect", line 249, or "modal",        *)
(* line 183), whether window.location.href was a sign-in link when it was  *)
(* called, the page load it belongs to and                                 *)
(*   phase "pending" awaiting signInWithEmailLink    (line 53)             *)
(*         "ok"      ran lines 59-65                                       *)
(*         "failed"  ran the catch block                                   *)
(*         "dropped" the page was loaded again before the call settled.    *)
(* An invocation of sendSignInLink is recorded in requests with the        *)
(* e-mail of the form and the same phases (awaiting line 79).              *)
(***************************************************************************)
NewExchange(e, by, href, n) ==
  [email |-> e, by |-> by, href |-> href, load |-> n, phase |-> "pending"]

\* React runs the effects of a mounting component once, and once more
\* under <StrictMode> in a development build (main.tsx, line 15)
MountRuns(d) == IF d THEN 2 ELSE 1

\* variant: the effect exchanges the link whether or not an e-mail is stored
SignInLinkEffect_NoPrompt(isLink, email, n) ==
  IF ~isLink THEN [open |-> FALSE, started |-> <<>>]
  ELSE [open |-> FALSE, started |-> <<NewExchange(email, "effect", isLink, n)>>]

\* one run of the effect of lines 242-256: what it queues for isModalOpen
\* and the completeSignIn invocations it starts
SignInLinkEffect(isLink, email, n) ==
  IF ~isLink THEN [open |-> FALSE, started |-> <<>>]
  ELSE IF email = NoEmail
       THEN [open |-> TRUE, started |-> <<>>]
       ELSE [open |-> FALSE, started |-> <<NewExchange(email, "effect", isLink, n)>>]

RECURSIVE Repeat(_, _)
Repeat(s, k) == IF k = 0 THEN <<>> ELSE s \o Repeat(s, k - 1)

\* the completeSignIn invocations of the mount of page load n
MountExchanges(d, isLink, email, n) ==
  Repeat(SignInLinkEffect(isLink, email, n).started, MountRuns(d))

\* the state queued by the mount: setIsModalOpen(true) of line 247
MountState(isLink, email, n) ==
  [InitState EXCEPT !.isModalOpen = SignInLinkEffect(isLink, email, n).open]

\* what line 244 read
Landing(isLink, email) == [link |-> isLink, email |-> IF isLink THEN email ELSE NoEmail]

\* the promises of a page that was left never run their continuations
Dropped(log) ==
  [k \in 1..Len(log) |->
     IF log[k].phase \in {"pending", "list", "urls", "write", "url"}
     THEN [log[k] EXCEPT !.phase = "dropped"] ELSE log[k]]

\* the browser loads the page at a URL that is (isLink) or is not a sign-in
\* link: first render and mount effects
LoadPage(isLink) ==
  /\ Budget
  /\ nLoads' = nLoads + 1
  /\ link' = isLink
  /\ landing' = Landing(isLink, stored)
  /\ st' = InitState
  /\ pend' = MountState(isLink, stored, nLoads + 1)
  /\ exchanges' = Dropped(exchanges) \o MountExchanges(dev, isLink, stored, nLoads + 1)
  /\ requests' = Dropped(requests)
  /\ fetches' = Dropped(fetches)
  /\ uploads' = Dropped(uploads)
  /\ observer' = NoObserver
  /\ visible' = TRUE
  /\ errors' = {}
  /\ UNCHANGED <<store, now, nAuth, stored, dev>>

\* the guest reloads the page
Reload == LoadPage(link)

\* the guest opens the sign-in link of the e-mail
OpenLink == ~link /\ LoadPage(TRUE)

\* sendSignInLink up to the await of line 79; e is the e-mail of the form,
\* which is rendered for a signed-out guest, its button disabled while a
\* request is being sent (lines 289-304)
sendSignInLink(e) ==
  /\ Budget
  /\ st.user = NoUser
  /\ ~st.sendingSignInLink
  /\ requests' = Append(requests, [email |-> e, phase |-> "pending"])
  /\ pend' = [pend EXCEPT !.sendingSignInLink = TRUE]
  /\ UNCHANGED <<store, now, visible, st, observer, fetches, uploads, nAuth,
                 errors, link, stored, dev, nLoads, landing, exchanges>>

\* variant: the e-mail is stored when the form is submitted
StoredAfterRequest_Eager(cur, r, ok) == r.email

\* lines 86 and 89-93: the stored e-mail after the request r settled
StoredAfterRequest(cur, r, ok) == IF ok THEN r.email ELSE cur

\* sendSignInLinkToEmail resolves: lines 84-88 and 95
RequestResolves(r) ==
  /\ requests[r].phase = "pending"
  /\ requests' = [requests EXCEPT ![r].phase = "ok"]
  /\ stored' = StoredAfterRequest(stored, requests[r], TRUE)
  /\ pend' = [pend EXCEPT !.sendingSignInLink = FALSE]
  /\ UNCHANGED <<store, now, visible, st, observer, fetches, uploads, nAuth,
                 errors, link, dev, nLoads, landing, exchanges>>

\* sendSignInLinkToEmail rejects: lines 89-93 and 95
RequestFails(r) ==
  /\ requests[r].phase = "pending"
  /\ requests' = [requests EXCEPT ![r].phase = "failed"]
  /\ stored' = StoredAfterRequest(stored, requests[r], FALSE)
  /\ errors' = errors \cup {ErrSending}
  /\ pend' = [pend EXCEPT !.sendingSignInLink = FALSE]
  /\ UNCHANGED <<store, now, visible, st, observer, fetches, uploads, nAuth,
                 link, dev, nLoads, landing, exchanges>>

\* handleModalSubmit, lines 180-190; e is the e-mail typed in the dialog,
\* which is rendered open for a signed-out guest (lines 276, 309)
handleModalSubmit(e) ==
  /\ Budget
  /\ st.user = NoUser
  /\ st.isModalOpen
  /\ exchanges' = Append(exchanges, NewExchange(e, "modal", link, nLoads))
  /\ pend' = [pend EXCEPT !.isModalOpen = FALSE]
  /\ UNCHANGED <<store, now, visible, st, observer, fetches, uploads, nAuth,
                 errors, link, stored, dev, nLoads, landing, requests>>

\* onOpenChange={setIsModalOpen} (line 309): the guest closes the dialog
ModalDismissed ==
  /\ st.user = NoUser
  /\ st.isModalOpen
  /\ pend.isModalOpen
  /\ pend' = [pend EXCEPT !.isModalOpen = FALSE]
  /\ UNCHANGED <<store, now, visible, st, observer, fetches, uploads, nAuth,
                 errors, signInVars>>

\* result.user of line 63
SignedInUser == "u1"

\* the identity platform accepts a sign-in link once, with the address it
\* was mailed to
Exchangeable(x) ==
  /\ exchanges[x].href
  /\ exchanges[x].email = LinkEmail
  /\ \A y \in 1..Len(exchanges) : exchanges[y].phase # "ok"

\* variant: the URL keeps the link after the exchange
LinkAfterExchange_Kept(cur) == cur

\* line 61: replaceState(..., window.location.pathname) strips the link
LinkAfterExchange(cur) == FALSE

\* signInWithEmailLink resolves: lines 59-65
ExchangeResolves(x) ==
  /\ exchanges[x].phase = "pending"
  /\ Exchangeable(x)
  /\ exchanges' = [exchanges EXCEPT ![x].phase = "ok"]
  /\ stored' = NoEmail
  /\ link' = LinkAfterExchange(link)
  /\ pend' = [pend EXCEPT !.user = SignedInUser]
  /\ UNCHANGED <<store, now, visible, st, observer, fetches, uploads, nAuth,
                 errors, dev, nLoads, landing, requests>>

\* signInWithEmailLink rejects: toast.promise shows its error message and
\* the catch block of lines 66-70 shows it again
ExchangeFails(x) ==
  /\ exchanges[x].phase = "pending"
  /\ exchanges' = [exchanges EXCEPT ![x].phase = "failed"]
  /\ errors' = errors \cup {ErrSigningIn}
  /\ UNCHANGED <<store, now, visible, st, pend, observer, fetches, uploads,
                 nAuth, link, stored, dev, nLoads, landing, requests>>

\* the settling of the platform calls and the user's actions, for any
\* invocation and any input
AuthDelivers  == \E u \in Users \cup {NoUser} : AuthStateChanged(u)
ListSettles   == \E i \in 1..Len(fetches) : ListResolves(i)
ListRejects   == \E i \in 1..Len(fetches) : ListFails(i)
UrlSettles    == \E i \in 1..Len(fetches) : \E k \in 1..maxResults : UrlResolves(i, k)
UrlRejects    == \E i \in 1..Len(fetches) : \E k \in 1..maxResults : UrlFails(i, k)
FileSelected  == \E f \in Files \cup {NoFile} : handleFileUpload(f)
WriteSettles  == \E j \in 1..Len(uploads) : UploadWritten(j)
WriteRejects  == \E j \in 1..Len(uploads) : UploadWriteFails(j)
UploadUrlSettles == \E j \in 1..Len(uploads) : UploadUrlResolves(j)
UploadUrlRejects == \E j \in 1..Len(uploads) : UploadUrlFails(j)
SignInSubmitted  == \E e \in Emails : sendSignInLink(e)
RequestSettles   == \E r \in 1..Len(requests) : RequestResolves(r)
RequestRejects   == \E r \in 1..Len(requests) : RequestFails(r)
ModalSubmitted   == \E e \in Emails : handleModalSubmit(e)
ExchangeSettles  == \E x \in 1..Len(exchanges) : ExchangeResolves(x)
ExchangeRejects  == \E x \in 1..Len(exchanges) : ExchangeFails(x)

Next ==
  \/ Render
  \/ Scroll
  \/ ObserverCallback
  \/ AuthDelivers
  \/ ListSettles
  \/ ListRejects
  \/ UrlSettles
  \/ UrlRejects
  \/ FileSelected
  \/ WriteSettles
  \/ WriteRejects
  \/ UploadUrlSettles
  \/ UploadUrlRejects

Spec == Init /\ [][Next]_vars

\* every platform call of a page fetch settles: list (line 104) resolves or
\* rejects, and so does each getDownloadURL (line 108)
FetchSettles == ListSettles \/ ListRejects \/ UrlSettles \/ UrlRejects

Fairness == WF_vars(FetchSettles)

\* the behaviours in which no file is selected
FeedNext ==
  \/ Render
  \/ Scroll
  \/ ObserverCallback
  \/ AuthDelivers
  \/ ListSettles
  \/ ListRejects
  \/ UrlSettles
  \/ UrlRejects

FairSpec == Init /\ [][FeedNext]_vars /\ Fairness

(***************************************************************************)
(* The page loads of the sign-in flow: the page is opened at a sign-in     *)
(* link or at its plain URL, with or without a pending e-mail in local     *)
(* storage, from a development or a production build, and loaded again any *)
(* number of times.  The storage service does not answer and the page is   *)
(* not scrolled in these behaviours.                                       *)
(***************************************************************************)
SignInInit ==
  /\ store = InitStore(MaxStored)
  /\ now = MaxStored
  /\ visible = TRUE
  /\ observer = NoObserver
  /\ fetches = <<>>
  /\ uploads = <<>>
  /\ nAuth = 0
  /\ errors = {}
  /\ link \in BOOLEAN
  /\ stored \in Emails \cup {NoEmail}
  /\ dev \in BOOLEAN
  /\ nLoads = 0
  /\ landing = Landing(link, stored)
  /\ requests = <<>>
  /\ exchanges = MountExchanges(dev, link, stored, 0)
  /\ st = InitState
  /\ pend = MountState(link, stored, 0)

SignInNext ==
  \/ Render
  \/ AuthDelivers
  \/ SignInSubmitted
  \/ RequestSettles
  \/ RequestRejects
  \/ ModalSubmitted
  \/ ModalDismissed
  \/ ExchangeSettles
  \/ ExchangeRejects
  \/ Reload
  \/ OpenLink

SignInSpec == SignInInit /\ [][SignInNext]_vars

(***************************************************************************)
(* Vocabulary of the properties.                                           *)
(***************************************************************************)
\* the fetchPhotos invocations that have not settled
InFlight == {i \in 1..Len(fetches) : fetches[i].phase \in {"list", "urls"}}

\* fetch i settles successfully in this step
Succeeds(i) == fetches[i].phase # "ok" /\ fetches'[i].phase = "ok"

Names(photos) == [k \in 1..Len(photos) |-> photos[k].name]

NoDuplicates(names) ==
  \A a, b \in 1..Len(names) : names[a] = names[b] => a = b

\* newest first: every name is above the names that follow it
Descending(names) ==
  \A a, b \in 1..Len(names) : a < b => NameLess(names[b], names[a])

\* fetch i loaded the first page and fetch j the page after it
PageOneThenTwo(i, j) ==
  /\ fetches[i].phase = "ok" /\ fetches[i].tok = NoToken
  /\ fetches[j].phase = "ok" /\ fetches[j].tok # NoToken
  /\ fetches[j].tok = fetches[i].next

(***************************************************************************)
(* C1.  At most one page fetch is in flight in every reachable state,      *)
(* whichever caller starts it; in particular never two for one cursor.     *)
(* Fails: neither the effect (line 264) nor the observer callback          *)
(* (line 229) looks at loading before it calls fetchPhotos.                *)
(***************************************************************************)
C1_SingleFlight == \A i, j \in InFlight : i = j

(***************************************************************************)
(* C2.  Loading page 1 and then page 2 yields a feed without a repeated    *)
(* name and in descending name order, across the page boundary too.        *)
(* Fails on the order: pages come in the listing's ascending order.        *)
(***************************************************************************)
C2_TwoPagesNewestFirst ==
  (Len(fetches) = 2 /\ PageOneThenTwo(1, 2) /\ uploads = <<>>)
    => /\ NoDuplicates(Names(pend.photos))
       /\ Descending(Names(pend.photos))

(***************************************************************************)
(* C3.  Original statement: after a successful page fetch hasMore is false *)
(* if the page has fewer than maxResults items and true otherwise.         *)
(***************************************************************************)
C3_HasMoreByPageSize ==
  [][\A i \in 1..Len(fetches) :
       Succeeds(i) => pend'.hasMore = ~(Len(fetches'[i].items) < maxResults)]_vars

(***************************************************************************)
(* C3, amended.  After a successful page fetch hasMore is true exactly     *)
(* when the listing returned a nextPageToken, so it is false after the     *)
(* last page also when that page is exactly full.                          *)
(***************************************************************************)
C3_HasMoreIsCursor ==
  [][\A i \in 1..Len(fetches) :
       Succeeds(i) => pend'.hasMore = (fetches'[i].next # NoToken)]_vars

\* a full page that is the last one has been loaded and hasMore is false
C3_Witness ==
  \E i \in 1..Len(fetches) :
    /\ fetches[i].phase = "ok"
    /\ Len(fetches[i].items) = maxResults
    /\ fetches[i].next = NoToken
    /\ InFlight = {}
    /\ ~pend.hasMore

(***************************************************************************)
(* C4.  Page size 2, store 3_c.jpg, 2_b.jpg, 1_a.jpg: the first page load  *)
(* leaves the feed [3_c.jpg, 2_b.jpg] with hasMore true, the next one      *)
(* [3_c.jpg, 2_b.jpg, 1_a.jpg] with hasMore false, and feed and hasMore    *)
(* stay there.  Fails: the first page is [1_a.jpg, 2_b.jpg], and after     *)
(* the last page the effect loads the first page again.                    *)
(***************************************************************************)
C4_Feed1 == <<MkName(3, "c.jpg"), MkName(2, "b.jpg")>>

C4_Feed2 == <<MkName(3, "c.jpg"), MkName(2, "b.jpg"), MkName(1, "a.jpg")>>

C4_Example ==
  (maxResults = 2 /\ store = InitStore(3) /\ uploads = <<>> /\ nAuth = 1)
    => /\ (Len(fetches) = 1 /\ fetches[1].phase = "ok")
            => (Names(pend.photos) = C4_Feed1 /\ pend.hasMore)
       /\ (Len(fetches) >= 2 /\ PageOneThenTwo(1, 2))
            => (Names(pend.photos) = C4_Feed2 /\ ~pend.hasMore)

(***************************************************************************)
(* C5.  When the sentinel reports visible twice before a re-render         *)
(* re-attaches the observer, the scroll trigger starts one page load, not  *)
(* two: no load it started is outstanding when it starts another.          *)
(* Fails: the callback (lines 227-235) tests only isIntersecting and       *)
(* hasMore.                                                                *)
(***************************************************************************)
C5_OneScrollLoad ==
  \A i, j \in InFlight :
    (fetches[i].by = "observer" /\ fetches[j].by = "observer") => i = j
(***************************************************************************)
(* C6.  loading is never left stuck true: every page fetch that is         *)
(* started, whether its listing or a URL resolution succeeds or fails, is  *)
(* followed by a state in which no fetch is outstanding and the loading    *)
(* flag is queued to false, provided each platform call settles            *)
(* (FairSpec).                                                             *)
(***************************************************************************)
C6_LoadingCleared == (InFlight # {}) ~> (InFlight = {} /\ ~pend.loading)

\* a fetch whose URL resolution failed has run line 131
C6_Witness ==
  \E i \in 1..Len(fetches) :
    fetches[i].phase = "failed" /\ fetches[i].items # <<>> /\ ~pend.loading

(***************************************************************************)
(* C7.  A page load that fails leaves the feed items, the cursor and       *)
(* hasMore as they were: no step of a load other than its successful       *)
(* completion (its start, the listing, a URL resolved, its failure)        *)
(* changes photos, pageToken or hasMore, so a page is never published in   *)
(* part.                                                                   *)
(***************************************************************************)
FeedOf(s) == <<s.photos, s.pageToken, s.hasMore>>

C7_FailedLoadKeepsFeed ==
  [][/\ \A i \in 1..Len(fetches) :
          (fetches'[i] # fetches[i] /\ fetches'[i].phase # "ok")
            => FeedOf(pend') = FeedOf(pend)
     /\ Len(fetches') > Len(fetches) => FeedOf(pend') = FeedOf(pend)]_vars

\* a load failed after one of its two URLs was resolved, over a loaded feed
C7_Witness ==
  \E i \in 1..Len(fetches) :
    /\ fetches[i].phase = "failed"
    /\ fetches[i].got # {}
    /\ pend.photos # <<>>
    /\ pend.pageToken # NoToken

(***************************************************************************)
(* C8.  Every successful upload prepends exactly one item, and its name    *)
(* carries a timestamp greater than that of every item already in the      *)
(* feed, also when several uploads complete in any order.  Fails when an   *)
(* upload started earlier completes later.                                 *)
(***************************************************************************)
C8_UploadIsNewest ==
  [][\A j \in 1..Len(uploads) :
       (uploads[j].phase = "url" /\ uploads'[j].phase = "ok")
         => /\ Len(pend'.photos) = Len(pend.photos) + 1
            /\ pend'.photos[1].name = uploads[j].name
            /\ Tail(pend'.photos) = pend.photos
            /\ \A k \in 1..Len(pend.photos) :
                 pend.photos[k].name.ts < uploads[j].name.ts]_vars

(***************************************************************************)
(* C9.  A selected file whose media type is neither image/* nor video/*,   *)
(* or whose size exceeds the configured maximum, is rejected: uploadBytes  *)
(* is never called for it and the feed and the bucket do not change.       *)
(***************************************************************************)
Allowed(f) ==
  /\ f.type # <<>>
  /\ f.type[1] \in {"image", "video"}
  /\ f.size <= maxUploadSize * 1024 * 1024

C9_RejectedFileNotWritten ==
  [][/\ Len(uploads') > Len(uploads)
          => LET u == uploads'[Len(uploads')]
             IN  ~Allowed(u.file)
                   => (u.phase = "rejected" /\ pend' = pend /\ store' = store)
     /\ \A j \in 1..Len(uploads) :
          uploads[j].phase = "rejected" => uploads'[j] = uploads[j]]_vars

\* a file of a disallowed type and a file over the limit have been selected
C9_Witness ==
  /\ \E j \in 1..Len(uploads) :
       uploads[j].phase = "rejected" /\ uploads[j].file.type = <<"application", "pdf">>
  /\ \E j \in 1..Len(uploads) :
       uploads[j].phase = "rejected" /\ uploads[j].file.size > SizeLimit

(***************************************************************************)
(* C10.  An upload that fails, at the byte write or at the URL resolution  *)
(* after it, leaves the feed unchanged: no step of an upload other than    *)
(* its successful completion changes photos.                               *)
(***************************************************************************)
C10_FailedUploadKeepsFeed ==
  [][\A j \in 1..Len(uploads) :
       (uploads'[j] # uploads[j] /\ uploads'[j].phase # "ok")
         => pend'.photos = pend.photos]_vars

\* an upload failed after its bytes were written, over a loaded feed
C10_Witness ==
  \E j \in 1..Len(uploads) :
    /\ uploads[j].phase = "failed"
    /\ uploads[j].name \in store
    /\ pend.photos # <<>>

(***************************************************************************)
(* Vocabulary of the sign-in properties.                                   *)
(***************************************************************************)
\* the completeSignIn invocations of the current page load
ThisLoad == {x \in 1..Len(exchanges) : exchanges[x].load = nLoads}

\* the page was loaded at a sign-in link and line 244 found an e-mail
LinkWithEmail == landing.link /\ landing.email # NoEmail

\* the page was loaded at a sign-in link and line 244 found no e-mail
LinkWithoutEmail == landing.link /\ landing.email = NoEmail

ExchangeSucceeds(x) == exchanges[x].phase = "pending" /\ exchanges'[x].phase = "ok"

ExchangeFailed(x) == exchanges[x].phase = "pending" /\ exchanges'[x].phase = "failed"

(***************************************************************************)
(* C11.  On a page load at a sign-in link with a pending e-mail in local   *)
(* storage the exchange is attempted exactly once for that page load,      *)
(* with that e-mail, and the dialog is not opened.  Fails in a development *)
(* build: <StrictMode> runs the mount effect twice and each run calls      *)
(* completeSignIn.                                                         *)
(***************************************************************************)
C11_ExchangedOnce ==
  LinkWithEmail
    => /\ Cardinality(ThisLoad) = 1
       /\ \A x \in ThisLoad : exchanges[x].email = landing.email
       /\ ~pend.isModalOpen /\ ~st.isModalOpen

(***************************************************************************)
(* C12.  On a page load at a sign-in link without a pending e-mail, every  *)
(* exchange attempt of that page load comes from the dialog's form, and    *)
(* is made while the dialog is rendered open: none is made by the effect   *)
(* and none before the dialog was opened.                                  *)
(***************************************************************************)
C12_PromptBeforeExchange ==
  /\ [](LinkWithoutEmail => \A x \in ThisLoad : exchanges[x].by = "modal")
  /\ [][(LinkWithoutEmail /\ nLoads' = nLoads /\ Len(exchanges') > Len(exchanges))
          => (st.isModalOpen /\ exchanges'[Len(exchanges')].by = "modal")]_vars

\* the guest confirmed the address in the dialog and was signed in
C12_Witness ==
  /\ LinkWithoutEmail
  /\ \E x \in ThisLoad : exchanges[x].by = "modal" /\ exchanges[x].phase = "ok"
  /\ ~pend.isModalOpen

(***************************************************************************)
(* C13.  A sign-in-link request that succeeds stores exactly the e-mail    *)
(* it was submitted with under the pending-e-mail key; one that fails      *)
(* leaves the stored e-mail unchanged; and neither the submission nor the  *)
(* settling of a request calls the link exchange.                          *)
(***************************************************************************)
C13_RequestStoresEmail ==
  [][/\ \A r \in 1..Len(requests) :
          /\ (requests[r].phase = "pending" /\ requests'[r].phase = "ok")
               => (stored' = requests[r].email /\ exchanges' = exchanges)
          /\ (requests[r].phase = "pending" /\ requests'[r].phase = "failed")
               => (stored' = stored /\ exchanges' = exchanges)
     /\ Len(requests') > Len(requests)
          => (exchanges' = exchanges /\ stored' = stored)]_vars

\* a request for one address failed and left the other address stored
C13_Witness ==
  \E r, q \in 1..Len(requests) :
    /\ r < q
    /\ requests[r].phase = "ok" /\ stored = requests[r].email
    /\ requests[q].phase = "failed" /\ requests[q].email # stored

(***************************************************************************)
(* C14.  A successful link exchange removes the pending e-mail from local  *)
(* storage and strips the link from the URL, and a reload of the page on   *)
(* which it succeeded starts no exchange and does not open the dialog.     *)
(***************************************************************************)
C14_NoExchangeAfterReload ==
  [][/\ \A x \in 1..Len(exchanges) :
          ExchangeSucceeds(x) => (stored' = NoEmail /\ ~link')
     /\ (/\ nLoads' = nLoads + 1
         /\ link' = link
         /\ \E x \in ThisLoad : exchanges[x].phase = "ok")
          => /\ \A y \in 1..Len(exchanges') : exchanges'[y].load # nLoads'
             /\ ~pend'.isModalOpen]_vars

\* the page was reloaded after the exchange and the session was restored
C14_Witness ==
  /\ nLoads > 0
  /\ \E x \in 1..Len(exchanges) :
       exchanges[x].phase = "ok" /\ exchanges[x].load = nLoads - 1
  /\ ThisLoad = {}
  /\ st.user = SignedInUser

(***************************************************************************)
(* C15.  A link exchange that fails produces no session: the user is as    *)
(* before, the error toast is shown, the stored e-mail and the URL are     *)
(* unchanged, and when the e-mail was entered in the dialog the dialog is  *)
(* open again.  Fails on the last point: handleModalSubmit closes the      *)
(* dialog (line 189) and nothing opens it again.                           *)
(***************************************************************************)
C15_FailedExchangeReturns ==
  [][\A x \in 1..Len(exchanges) :
       ExchangeFailed(x)
         => /\ pend'.user = pend.user
            /\ ErrSigningIn \in errors'
            /\ stored' = stored /\ link' = link
            /\ exchanges[x].by = "modal" => pend'.isModalOpen]_vars

(***************************************************************************)
(* C16.  Within one session, once a first page is loaded, every change of  *)
(* the feed appends items at its end or prepends one uploaded item: no     *)
(* loaded item is removed or moves relative to the others.  Fails: when    *)
(* the last page resets pageToken to undefined the effect of lines 258-274 *)
(* runs fetchPhotos without a cursor and line 120 replaces the whole feed  *)
(* by the first page.                                                      *)
(***************************************************************************)
IsAppend(old, new) ==
  Len(new) > Len(old) /\ SubSeq(new, 1, Len(old)) = old

IsPrepend(old, new) ==
  Len(new) = Len(old) + 1 /\ Tail(new) = old

C16_FeedOnlyGrows ==
  [][(/\ nAuth = 1 /\ nAuth' = 1
      /\ \E i \in 1..Len(fetches) : fetches[i].phase = "ok"
      /\ pend'.photos # pend.photos)
       => (IsAppend(pend.photos, pend'.photos) \/ IsPrepend(pend.photos, pend'.photos))]_vars

(***************************************************************************)
(* C17.  When a render commits a different user (a session became          *)
(* available or changed), the page load its effect starts has no cursor,   *)
(* so that its result replaces the feed.  Fails: nothing resets pageToken  *)
(* when the user changes, and fetchPhotos uses the cursor left by the      *)
(* previous session and appends to its items.                              *)
(***************************************************************************)
C17_SessionChangeResets ==
  [][(/\ st'.user # st.user
      /\ st'.user # NoUser
      /\ Len(fetches') > Len(fetches))
       => fetches'[Len(fetches')].tok = NoToken]_vars

(***************************************************************************)
(* C18.  After page loads that failed, with the same user, a further       *)
(* listing call is issued only when the sentinel goes from not visible to  *)
(* visible: by the observer callback, whose observer last reported the     *)
(* sentinel out of view.  Fails: the render that follows the failure       *)
(* (loading back to false) attaches a new observer, whose first            *)
(* notification reports the sentinel that is still in view, and lines      *)
(* 228-229 call fetchPhotos again.                                         *)
(***************************************************************************)
AllFailed ==
  fetches # <<>> /\ \A i \in 1..Len(fetches) : fetches[i].phase = "failed"

C18_NoAutomaticRetry ==
  [][(AllFailed /\ st'.user = st.user /\ Len(fetches') > Len(fetches))
       => (/\ fetches'[Len(fetches')].by = "observer"
           /\ observer.last = "out")]_vars

(***************************************************************************)
(* C19.  A page is published only when a retrieval URL is resolved for     *)
(* every object of its listing, and the items it adds to the feed are the  *)
(* listed objects in the listing's order, each with its own URL, whichever *)
(* URL resolution completes last; until then the fetch leaves the feed as  *)
(* it is.                                                                  *)
(***************************************************************************)
\* the last n items of the feed
LastItems(photos, n) == SubSeq(photos, Len(photos) - n + 1, Len(photos))

C19_WholePageInListingOrder ==
  [][\A i \in 1..Len(fetches) :
       /\ Succeeds(i)
            => LET f == fetches'[i]
                   n == Len(f.items)
               IN  /\ f.got = 1..n
                   /\ Len(pend'.photos) >= n
                   /\ LastItems(pend'.photos, n)
                        = [k \in 1..n |-> PhotoItem(f.items[k], DownloadURL(f.items[k]))]
       /\ (fetches'[i] # fetches[i] /\ fetches'[i].phase = "urls")
            => pend'.photos = pend.photos]_vars

\* a page of two objects was published over a loaded feed
C19_Witness ==
  \E i \in 1..Len(fetches) :
    /\ fetches[i].phase = "ok"
    /\ fetches[i].tok # NoToken
    /\ Len(fetches[i].items) = maxResults
    /\ Len(pend.photos) > maxResults
    /\ Names(LastItems(pend.photos, maxResults)) = fetches[i].items

(***************************************************************************)
(* C20.  With one signed-in user, an unchanging store, no failure and no   *)
(* user action, page loading comes to rest: once the effect of lines       *)
(* 258-274 has loaded the last page (the listing returned no               *)
(* nextPageToken) no further listing call is issued.  Fails for a store    *)
(* of more than one page: the last page sets pageToken back to undefined,  *)
(* fetchPhotos changes identity, the effect runs again and loads the       *)
(* first page, and so on without end.                                      *)
(***************************************************************************)
\* only the effect has called fetchPhotos, for one user, and nothing failed
EffectOnly ==
  /\ nAuth = 1
  /\ uploads = <<>>
  /\ \A i \in 1..Len(fetches) :
       fetches[i].by = "effect" /\ fetches[i].phase # "failed"

C20_LoadingQuiesces ==
  EffectOnly
    => \A i, j \in 1..Len(fetches) :
         (i < j) => ~(fetches[i].phase = "ok" /\ fetches[i].next = NoToken)

(***************************************************************************)
(* C21.  Within one session, once a page load has set hasMore to false,    *)
(* no caller starts a further page fetch, hasMore stays false and the      *)
(* cursor stays empty.  Fails for a store of more than one page: the last  *)
(* page sets hasMore to false and pageToken to undefined in the same       *)
(* batch, the change of pageToken re-runs the effect of lines 258-274,     *)
(* which does not look at hasMore, and the first page it loads sets        *)
(* hasMore and the cursor again.                                           *)
(***************************************************************************)
C21_EndOfFeedIsFinal ==
  [][(~pend.hasMore /\ pend'.user = pend.user /\ st'.user = st.user)
       => /\ Len(fetches') = Len(fetches)
          /\ ~pend'.hasMore
          /\ pend'.pageToken = NoToken]_vars

(***************************************************************************)
(* C22.  In every reachable state no two items of the feed have the same   *)
(* name, for any interleaving of page loads and uploads.  Fails: line 148  *)
(* prepends the uploaded item and line 120 appends the items of a listing  *)
(* without looking at the names already in the feed, and a listing made    *)
(* after the bytes were written returns the uploaded object too.           *)
(***************************************************************************)
C22_NoDuplicateNames == NoDuplicates(Names(pend.photos))

(***************************************************************************)
(* C23.  In every reachable state in which a page fetch is outstanding,    *)
(* loading (with the queued updates applied) is true.  Fails: line 131 of  *)
(* one fetch sets loading to false while another fetch is in flight.       *)
(***************************************************************************)
C23_LoadingWhileInFlight == (InFlight # {}) => pend.loading

=============================================================================
